---- MODULE Spec2Model ----
(***************************************************************************)
(* Model of fashion-backend/app.py: the trend extractor                    *)
(* load_and_process_data, run once when the module is imported, and the    *)
(* two Flask handlers get_trends and predict_trend that serve its result.  *)
(*                                                                         *)
(* A Python str is modelled as a sequence of one-character strings, so     *)
(* that slicing, splitting, lower-casing and formatting are computed.      *)
(* A float is modelled as an IEEE-754 double: a 53-bit mantissa and the    *)
(* exponent of its leading bit, with round-to-nearest-even arithmetic.     *)
(***************************************************************************)
EXTENDS Integers, Sequences, FiniteSets, TLC

-----------------------------------------------------------------------------
(* Text *)

UpperLetters ==
    <<"A", "B", "C", "D", "E", "F", "G", "H", "I", "J", "K", "L", "M", "N", "O", "P", "Q", "R",
    "S", "T", "U", "V", "W", "X", "Y", "Z">>

LowerLetters ==
    <<"a", "b", "c", "d", "e", "f", "g", "h", "i", "j", "k", "l", "m", "n", "o", "p", "q", "r",
    "s", "t", "u", "v", "w", "x", "y", "z">>

DigitChars ==
    <<"0", "1", "2", "3", "4", "5", "6", "7", "8", "9">>

Whitespace == {" ", "\t"}

IndexIn(seq, ch) == CHOOSE i \in 1..Len(seq) : seq[i] = ch

\* str.lower() on one character
lower_char(ch) ==
    IF \E i \in 1..Len(UpperLetters) : UpperLetters[i] = ch
    THEN LowerLetters[IndexIn(UpperLetters, ch)]
    ELSE ch

\* str.lower()
lower(s) == [i \in 1..Len(s) |-> lower_char(s[i])]

\* str.replace(old, new) for one-character old and new
replace_char(s, old, new) == [i \in 1..Len(s) |-> IF s[i] = old THEN new ELSE s[i]]

\* str.startswith(p)
startswith(s, p) == Len(s) >= Len(p) /\ SubSeq(s, 1, Len(p)) = p

\* the slice s[:n]
slice_to(s, n) == SubSeq(s, 1, IF Len(s) < n THEN Len(s) ELSE n)

\* str.split(): the maximal runs of non-whitespace characters, in order
split(s) ==
    LET starts == {i \in 1..Len(s) :
                      s[i] \notin Whitespace /\ (i = 1 \/ s[i - 1] \in Whitespace)}
        end(i) == CHOOSE j \in i..Len(s) :
                      /\ \A k \in i..j : s[k] \notin Whitespace
                      /\ (j = Len(s) \/ s[j + 1] \in Whitespace)
        nth(k) == CHOOSE i \in starts : Cardinality({j \in starts : j < i}) = k - 1
    IN  [k \in 1..Cardinality(starts) |-> SubSeq(s, nth(k), end(nth(k)))]

RECURSIVE digits_of(_)
digits_of(n) ==
    IF n < 10
    THEN <<DigitChars[n + 1]>>
    ELSE Append(digits_of(n \div 10), DigitChars[(n % 10) + 1])

\* str(n) for an int n
str_int(n) == IF n < 0 THEN <<"-">> \o digits_of(-n) ELSE digits_of(n)

-----------------------------------------------------------------------------------------------------------------------------------------------------
(* Double-precision arithmetic. A positive double is [hi, mid, lo, exp]:   *)
(* its MantissaBits-bit mantissa hi * LimbBase^2 + mid * LimbBase + lo in  *)
(* three limbs, and the exponent exp of the mantissa's leading bit.        *)

MantissaBits == 53

LimbBase == 2^18

\* the value of the leading limb's top bit: the mantissa is normalised when
\* HiTop <= hi < 2 * HiTop
HiTop == 2^(MantissaBits - 37)

RECURSIVE shift_for(_, _, _)
\* c * 2^k for the least k with c * 2^k >= d
shift_for(c, d, k) == IF c >= d THEN [num |-> c, k |-> k] ELSE shift_for(2 * c, d, k + 1)

\* the mantissa plus one when `up`, renormalised when the carry overflows
round_float(hi, mid, lo, exp, up) ==
    IF ~up
    THEN [hi |-> hi, mid |-> mid, lo |-> lo, exp |-> exp]
    ELSE IF lo + 1 < LimbBase
         THEN [hi |-> hi, mid |-> mid, lo |-> lo + 1, exp |-> exp]
         ELSE IF mid + 1 < LimbBase
              THEN [hi |-> hi, mid |-> mid + 1, lo |-> 0, exp |-> exp]
              ELSE IF hi + 1 < 2 * HiTop
                   THEN [hi |-> hi + 1, mid |-> 0, lo |-> 0, exp |-> exp]
                   ELSE [hi |-> HiTop, mid |-> 0, lo |-> 0, exp |-> exp + 1]

\* the double c / d for integers 1 <= c <= d < 2^13: long division, limb by
\* limb, rounded to nearest, ties to even
float_div(c, d) ==
    LET s   == shift_for(c, d, 0)
        n1  == s.num * HiTop
        n2  == (n1 % d) * LimbBase
        n3  == (n2 % d) * LimbBase
        rem == n3 % d
        lo  == n3 \div d
        up  == 2 * rem > d \/ (2 * rem = d /\ lo % 2 = 1)
    IN  round_float(n1 \div d, n2 \div d, lo, -s.k, up)

\* the double x * k for an integer 1 <= k < 2^13: the exact product, cut back
\* to MantissaBits bits and rounded to nearest, ties to even
float_mul_int(x, k) ==
    LET t3   == x.lo * k
        t2   == x.mid * k + (t3 \div LimbBase)
        t1   == x.hi * k + (t2 \div LimbBase)
        p2   == t2 % LimbBase
        p3   == t3 % LimbBase
        drop == CHOOSE n \in 0..13 : HiTop * 2^n <= t1 /\ t1 < HiTop * 2^(n + 1)
        cut  == 2^drop
        lo   == ((p2 % cut) * LimbBase + p3) \div cut
        lost == p3 % cut
        up   == drop > 0 /\ (2 * lost > cut \/ (2 * lost = cut /\ lo % 2 = 1))
    IN  round_float(t1 \div cut, ((t1 % cut) * LimbBase + p2) \div cut, lo, x.exp + drop, up)

\* int(x): truncation towards zero, for a positive double below 2 * HiTop
int_of_float(x) == IF x.exp < 0 THEN 0 ELSE x.hi \div (HiTop \div 2^x.exp)

-----
(* The per-group computations of the loop body (app.py lines 70-123) *)

Percent == 100
PopularityMin == 30
PopularityMax == 95
ChangeMin == -10
ChangeMax == 25

Min2(a, b) == IF a < b THEN a ELSE b
Max2(a, b) == IF a > b THEN a ELSE b

\* mutant: round(...) in place of int(...)
scaled_popularity_rounded(count, max_count) ==
    LET q == (Percent * count) \div max_count
        r == (Percent * count) % max_count
    IN  IF 2 * r >= max_count THEN q + 1 ELSE q

\* int((category_counts[category] / max_count) * 100)
scaled_popularity(count, max_count) ==
    int_of_float(float_mul_int(float_div(count, max_count), Percent))

\* mutant: the upper limit of the clamp left out
current_popularity_uncapped(count, max_count) ==
    Max2(scaled_popularity(count, max_count), PopularityMin)

\* min(max(current_popularity, 30), 95)
current_popularity(count, max_count) ==
    Min2(Max2(scaled_popularity(count, max_count), PopularityMin), PopularityMax)

\* mutant: no explicit plus sign
predicted_change_str_unsigned(predicted_change) == str_int(predicted_change)

\* f"+{predicted_change}" if predicted_change >= 0 else str(predicted_change)
predicted_change_str(predicted_change) ==
    IF predicted_change >= 0
    THEN <<"+">> \o str_int(predicted_change)
    ELSE str_int(predicted_change)

-----------------------------------------------------------------------------
(* The dataset file and the data frame pd.read_csv makes of it.            *)
(* A file is [exists, parses, columns, rows]; a row maps each column to    *)
(* the raw text of its field, <<>> for an empty field.                     *)

DigitSet == {DigitChars[i] : i \in 1..Len(DigitChars)}

NaN == [kind |-> "nan", text |-> <<>>]

is_number(raw) == raw # <<>> /\ \A i \in 1..Len(raw) : raw[i] \in DigitSet

\* read_csv's type inference: a column whose non-empty fields are all numbers
\* is numeric, any other column holds str objects; empty fields are NaN
numeric_column(rows, col) ==
    /\ \E i \in 1..Len(rows) : rows[i][col] # <<>>
    /\ \A i \in 1..Len(rows) : rows[i][col] = <<>> \/ is_number(rows[i][col])

parse_cell(raw, numeric) ==
    IF raw = <<>>
    THEN NaN
    ELSE [kind |-> IF numeric THEN "num" ELSE "str", text |-> raw]

\* df = pd.read_csv(DATASET_FILE), for a file that parses
read_csv(file) ==
    [columns |-> file.columns,
     rows    |-> [i \in 1..Len(file.rows) |->
                    [c \in file.columns |->
                        parse_cell(file.rows[i][c], numeric_column(file.rows, c))]]]

CategoryColumns ==
    <<"Type ", "Subtype", "Category", "category", "ProductCategory", "product_category">>

\* category_col = None
NoColumn == ""

\* the first name of CategoryColumns that is a column of df
category_col(columns) ==
    IF \E i \in 1..Len(CategoryColumns) : CategoryColumns[i] \in columns
    THEN CategoryColumns[CHOOSE i \in 1..Len(CategoryColumns) :
                            /\ CategoryColumns[i] \in columns
                            /\ \A j \in 1..(i - 1) : CategoryColumns[j] \notin columns]
    ELSE NoColumn

\* category_counts[category]
category_count(rows, col, category) ==
    Cardinality({i \in 1..Len(rows) : rows[i][col] = category})

\* the index of value_counts(): the distinct values, NaN dropped
category_values(rows, col) == {rows[i][col] : i \in 1..Len(rows)} \ {NaN}

\* category_counts.max()
max_count(rows, col) ==
    LET counts == {category_count(rows, col, v) : v \in category_values(rows, col)}
    IN  CHOOSE m \in counts : \A n \in counts : n <= m

\* mutant: the values in any order
unique_categories_unsorted(rows, col) ==
    LET values == category_values(rows, col)
    IN  {o \in [1..Cardinality(values) -> values] :
            \A i, j \in 1..Cardinality(values) : i # j => o[i] # o[j]}

\* category_counts.index.tolist(): the values by descending count; the order
\* among values of equal count is left open by value_counts
unique_categories(rows, col) ==
    LET values == category_values(rows, col)
    IN  {o \in [1..Cardinality(values) -> values] :
            /\ \A i, j \in 1..Cardinality(values) : i # j => o[i] # o[j]
            /\ \A i, j \in 1..Cardinality(values) :
                 i < j => category_count(rows, col, o[i]) >= category_count(rows, col, o[j])}

\* category_df = df[df[category_col] == category]
category_df(rows, col, category) == SelectSeq(rows, LAMBDA r : r[col] = category)

\* category_df[col].isnull().all()
isnull_all(cdf, col) == \A i \in 1..Len(cdf) : cdf[i][col].kind = "nan"

\* category_df[col].dropna().iloc[0]
first_valid(cdf, col) ==
    cdf[CHOOSE i \in 1..Len(cdf) :
            /\ cdf[i][col].kind # "nan"
            /\ \A j \in 1..(i - 1) : cdf[j][col].kind = "nan"][col]

\* col in category_df.columns and not category_df[col].isnull().all()
has_values(cdf, columns, col) == col \in columns /\ ~isnull_all(cdf, col)

-----------------------------------------------------------------------------
(* The fields of a trend record. Each operator gives [raised, values]:     *)
(* whether the statement raises, and otherwise the values it can produce.  *)

MaxKeywords == 5
MinWordLength == 3
DescriptionLength == 150

PlaceholderPrefix ==
    <<"h", "t", "t", "p", "s", ":", "/", "/", "p", "l", "a", "c", "e", "h", "o", "l", "d", ".",
    "c", "o", "/", "3", "0", "0", "x", "2", "0", "0", "/", "F", "0", "F", "0", "F", "0", "/",
    "3", "3", "3", "3", "3", "3", "?", "t", "e", "x", "t", "=">>

GeneratedPrefix ==
    <<"T", "r", "e", "n", "d", "s", " ", "i", "n", " ", "t", "h", "e", " ", "'">>

GeneratedSuffix ==
    <<"'", " ", "c", "a", "t", "e", "g", "o", "r", "y", ",", " ", "d", "e", "r", "i", "v", "e",
    "d", " ", "f", "r", "o", "m", " ", "K", "a", "g", "g", "l", "e", " ", "d", "a", "t", "a",
    ".">>

Ellipsis ==
    <<".", ".", ".">>

HttpPrefix ==
    <<"h", "t", "t", "p">>

Raise == [raised |-> TRUE, values |-> {}]
Return(values) == [raised |-> FALSE, values |-> values]

\* set([word.lower() for word in text.split() if len(word) > 3])
long_words(text) ==
    LET words == split(text)
    IN  {lower(words[i]) : i \in {j \in 1..Len(words) : Len(words[j]) > MinWordLength}}

\* list(s)[:n] for a set s: its first n elements in any iteration order
list_prefixes(s, n) ==
    LET k == Min2(n, Cardinality(s))
    IN  {l \in [1..k -> s] : \A i, j \in 1..k : i # j => l[i] # l[j]}

\* mutant: the [:5] cut left out
sample_keywords_uncapped(sample) ==
    IF sample.kind # "str"
    THEN Raise
    ELSE Return(list_prefixes(long_words(sample.text), Cardinality(long_words(sample.text))))

\* list(set([...]))[:5] for a sample; a sample that is no str has no .split
sample_keywords(sample) ==
    IF sample.kind # "str"
    THEN Raise
    ELSE Return(list_prefixes(long_words(sample.text), MaxKeywords))

\* the category name as the only keyword
category_keyword(category) ==
    IF category.kind # "str"
    THEN Raise
    ELSE Return({<<replace_char(lower(category.text), " ", "-")>>})

\* lines 86-95
keywords(cdf, columns, category) ==
    IF has_values(cdf, columns, "description")
    THEN sample_keywords(first_valid(cdf, "description"))
    ELSE IF has_values(cdf, columns, "title")
         THEN sample_keywords(first_valid(cdf, "title"))
         ELSE category_keyword(category)

\* mutant: the [:150] slice left out
sample_description_uncut(sample) ==
    IF sample.kind # "str"
    THEN Raise
    ELSE Return({sample.text \o Ellipsis})

\* sample[:150] + "..."; a sample that is no str cannot be sliced
sample_description(sample) ==
    IF sample.kind # "str"
    THEN Raise
    ELSE Return({slice_to(sample.text, DescriptionLength) \o Ellipsis})

\* lines 98-102
description(cdf, columns, category) ==
    IF has_values(cdf, columns, "description")
    THEN sample_description(first_valid(cdf, "description"))
    ELSE IF has_values(cdf, columns, "title")
         THEN sample_description(first_valid(cdf, "title"))
         ELSE Return({GeneratedPrefix \o category.text \o GeneratedSuffix})

\* the placeholder URL of line 105; a category that is no str has no .replace
placeholder_url(category) == PlaceholderPrefix \o replace_char(category.text, " ", "+")

\* mutant: the startswith('http') validation left out
validated_url_unchecked(first_image_url, placeholder) ==
    IF first_image_url.kind # "str"
    THEN Raise
    ELSE Return({first_image_url.text})

\* image_url = first_image_url if it starts with 'http'
validated_url(first_image_url, placeholder) ==
    IF first_image_url.kind # "str"
    THEN Raise
    ELSE IF startswith(first_image_url.text, HttpPrefix)
         THEN Return({first_image_url.text})
         ELSE Return({placeholder})

\* lines 105-111
image_url(cdf, columns, category) ==
    IF category.kind # "str"
    THEN Raise
    ELSE IF has_values(cdf, columns, "image_url")
         THEN validated_url(first_valid(cdf, "image_url"), placeholder_url(category))
         ELSE Return({placeholder_url(category)})

-----------------------------------------------------------------------------
(* load_and_process_data *)

FallbackImageUrl ==
    <<"h", "t", "t", "p", "s", ":", "/", "/", "p", "l", "a", "c", "e", "h", "o", "l", "d", ".",
    "c", "o", "/", "3", "0", "0", "x", "2", "0", "0", "/", "F", "0", "F", "0", "F", "0", "/",
    "3", "3", "3", "3", "3", "3", "?", "t", "e", "x", "t", "=", "F", "a", "l", "l", "b", "a",
    "c", "k", "+", "D", "a", "t", "a">>

FallbackText ==
    <<"U", "s", "i", "n", "g", " ", "f", "a", "l", "l", "b", "a", "c", "k", " ", "d", "a", "t",
    "a", ".", " ", "P", "l", "e", "a", "s", "e", " ", "e", "n", "s", "u", "r", "e", " ", "K",
    "a", "g", "g", "l", "e", " ", "d", "a", "t", "a", "s", "e", "t", " ", "i", "s", " ", "d",
    "o", "w", "n", "l", "o", "a", "d", "e", "d", ".">>

DataIssueImageUrl ==
    <<"h", "t", "t", "p", "s", ":", "/", "/", "p", "l", "a", "c", "e", "h", "o", "l", "d", ".",
    "c", "o", "/", "3", "0", "0", "x", "2", "0", "0", "/", "C", "C", "C", "C", "C", "C", "/",
    "6", "6", "6", "6", "6", "6", "?", "t", "e", "x", "t", "=", "D", "a", "t", "a", "+", "E",
    "r", "r", "o", "r">>

DataIssueText ==
    <<"C", "o", "u", "l", "d", " ", "n", "o", "t", " ", "p", "r", "o", "c", "e", "s", "s", " ",
    "K", "a", "g", "g", "l", "e", " ", "d", "a", "t", "a", ".", " ", "C", "h", "e", "c", "k",
    " ", "b", "a", "c", "k", "e", "n", "d", " ", "c", "o", "n", "s", "o", "l", "e", " ", "f",
    "o", "r", " ", "c", "o", "l", "u", "m", "n", " ", "i", "s", "s", "u", "e", "s", ".">>

ProcessingErrorImageUrl ==
    <<"h", "t", "t", "p", "s", ":", "/", "/", "p", "l", "a", "c", "e", "h", "o", "l", "d", ".",
    "c", "o", "/", "3", "0", "0", "x", "2", "0", "0", "/", "C", "C", "C", "C", "C", "C", "/",
    "6", "6", "6", "6", "6", "6", "?", "t", "e", "x", "t", "=", "P", "r", "o", "c", "e", "s",
    "s", "i", "n", "g", "+", "E", "r", "r", "o", "r">>

ProcessingErrorText ==
    <<"A", "n", " ", "e", "r", "r", "o", "r", " ", "o", "c", "c", "u", "r", "r", "e", "d", " ",
    "d", "u", "r", "i", "n", "g", " ", "d", "a", "t", "a", " ", "p", "r", "o", "c", "e", "s",
    "s", "i", "n", "g", ".", " ", "S", "e", "e", " ", "b", "a", "c", "k", "e", "n", "d", " ",
    "c", "o", "n", "s", "o", "l", "e", ".">>

\* the list returned when DATASET_FILE does not exist
MissingFileFallback ==
  <<
    [id |-> 1,
     trendName |-> <<"F", "a", "l", "l", "b", "a", "c", "k", ":", " ", "O", "v", "e", "r", "s", "i", "z", "e", "d", " ", "B", "l", "a", "z", "e", "r", "s">>,
     category |-> <<"O", "u", "t", "e", "r", "w", "e", "a", "r">>,
     currentPopularity |-> 85,
     predictedPopularityChange |-> <<"+", "1", "0">>,
     keywords |-> <<<<"b", "l", "a", "z", "e", "r">>,
                   <<"o", "v", "e", "r", "s", "i", "z", "e", "d">>,
                   <<"f", "o", "r", "m", "a", "l">>,
                   <<"c", "a", "s", "u", "a", "l">>,
                   <<"c", "h", "i", "c">>>>,
     imageUrl |-> FallbackImageUrl,
     description |-> FallbackText],
    [id |-> 2,
     trendName |-> <<"F", "a", "l", "l", "b", "a", "c", "k", ":", " ", "C", "a", "r", "g", "o", " ", "P", "a", "n", "t", "s">>,
     category |-> <<"B", "o", "t", "t", "o", "m", "s">>,
     currentPopularity |-> 78,
     predictedPopularityChange |-> <<"+", "1", "5">>,
     keywords |-> <<<<"c", "a", "r", "g", "o">>,
                   <<"p", "a", "n", "t", "s">>,
                   <<"u", "t", "i", "l", "i", "t", "y">>,
                   <<"s", "t", "r", "e", "e", "t", "w", "e", "a", "r">>,
                   <<"c", "o", "m", "f", "o", "r", "t">>>>,
     imageUrl |-> FallbackImageUrl,
     description |-> FallbackText]
  >>

\* the list returned when no category column is found or the table has no rows
DataIssueFallback ==
  <<
    [id |-> 1,
     trendName |-> <<"F", "a", "l", "l", "b", "a", "c", "k", ":", " ", "D", "a", "t", "a", " ", "I", "s", "s", "u", "e">>,
     category |-> <<"U", "n", "k", "n", "o", "w", "n">>,
     currentPopularity |-> 50,
     predictedPopularityChange |-> <<"+", "0">>,
     keywords |-> <<<<"d", "a", "t", "a">>,
                   <<"e", "r", "r", "o", "r">>,
                   <<"c", "h", "e", "c", "k", "-", "c", "o", "n", "s", "o", "l", "e">>>>,
     imageUrl |-> DataIssueImageUrl,
     description |-> DataIssueText]
  >>

\* the list returned by the except clause
ProcessingErrorFallback ==
  <<
    [id |-> 1,
     trendName |-> <<"F", "a", "l", "l", "b", "a", "c", "k", ":", " ", "P", "r", "o", "c", "e", "s", "s", "i", "n", "g", " ", "E", "r", "r", "o", "r">>,
     category |-> <<"E", "r", "r", "o", "r">>,
     currentPopularity |-> 50,
     predictedPopularityChange |-> <<"+", "0">>,
     keywords |-> <<<<"e", "r", "r", "o", "r">>,
                   <<"p", "r", "o", "c", "e", "s", "s", "i", "n", "g">>,
                   <<"c", "h", "e", "c", "k", "-", "c", "o", "n", "s", "o", "l", "e">>>>,
     imageUrl |-> ProcessingErrorImageUrl,
     description |-> ProcessingErrorText]
  >>

PredictMessage ==
    <<"P", "r", "e", "d", "i", "c", "t", "i", "o", "n", " ", "e", "n", "d", "p", "o", "i", "n",
    "t", " ", "h", "i", "t", ".", " ", "I", "m", "p", "l", "e", "m", "e", "n", "t", " ", "y",
    "o", "u", "r", " ", "M", "L", " ", "p", "r", "e", "d", "i", "c", "t", "i", "o", "n", " ",
    "l", "o", "g", "i", "c", " ", "h", "e", "r", "e", "!">>

\* the dict appended at lines 114-123, for the 0-based loop index i
trend_record(i, category, popularity, change, kws, url, desc) ==
    [id |-> i + 1,
     trendName |-> category.text,
     category |-> category.text,
     currentPopularity |-> popularity,
     predictedPopularityChange |-> predicted_change_str(change),
     keywords |-> kws,
     imageUrl |-> url,
     description |-> desc]

RECURSIVE process_groups(_, _, _, _, _)
\* the for loop from iteration i on, trends_data holding the records appended
\* so far: every [raised, trends_data] the loop can end with, over the draws
\* of random.randint(-10, 25) and the iteration orders of the keyword sets
process_groups(df, col, categories, i, trends_data) ==
    IF i >= Len(categories)
    THEN {[raised |-> FALSE, trends_data |-> trends_data]}
    ELSE LET category   == categories[i + 1]
             cdf        == category_df(df.rows, col, category)
             popularity == current_popularity(category_count(df.rows, col, category),
                                              max_count(df.rows, col))
             kws        == keywords(cdf, df.columns, category)
             desc       == description(cdf, df.columns, category)
             url        == image_url(cdf, df.columns, category)
         IN  IF kws.raised \/ desc.raised \/ url.raised
             THEN {[raised |-> TRUE, trends_data |-> trends_data]}
             ELSE UNION {process_groups(df, col, categories, i + 1,
                             Append(trends_data,
                                    trend_record(i, category, popularity, change, k, u, d))) :
                         change \in ChangeMin..ChangeMax,
                         k \in kws.values, u \in url.values, d \in desc.values}

\* mutant: the fallback record appended to the records derived so far
on_exception_keeping(trends_data) == trends_data \o ProcessingErrorFallback

\* the except clause: the list built so far is dropped
on_exception(trends_data) == ProcessingErrorFallback

\* line 152: return trends_data if trends_data else []
return_trends(trends_data) == IF trends_data # <<>> THEN trends_data ELSE <<>>

\* the try block for a data frame: every list it can return
process_frame(df) ==
    LET col == category_col(df.columns)
    IN  IF col # NoColumn /\ Len(df.rows) > 0
        THEN {IF o.raised THEN on_exception(o.trends_data) ELSE return_trends(o.trends_data) :
                o \in UNION {process_groups(df, col, order, 0, <<>>) :
                               order \in unique_categories(df.rows, col)}}
        ELSE {DataIssueFallback}

\* every list load_and_process_data() can return for the file
load_and_process_data(file) ==
    IF ~file.exists
    THEN {MissingFileFallback}
    ELSE IF ~file.parses
         THEN {on_exception(<<>>)}
         ELSE process_frame(read_csv(file))

-----------------------------------------------------------------------------
(* Inputs: the dataset files the extractor is run on *)

MaxRows == 3
MaxGroupRows == 2
MaxCount == 50

CategoryA ==
    <<"M", "a", "x", "i", " ", "D", "r", "e", "s", "s">>

CategoryB ==
    <<"T", "o", "p", "s">>

Seven ==
    <<"7">>

Brand ==
    <<"A", "c", "m", "e">>

ShortText ==
    <<"C", "h", "i", "c", " ", "r", "e", "d", " ", "G", "o", "w", "n">>

PlainText ==
    <<"R", "e", "d", " ", "h", "a", "t">>

LongText ==
    <<"B", "o", "h", "o", " ", "L", "I", "N", "E", "N", " ", "m", "a", "x", "i", " ", "d", "r",
    "e", "s", "s", " ", "w", "i", "t", "h", " ", "l", "i", "n", "e", "n", " ", "t", "r", "i",
    "m", " ", "s", "o", " ", "i", "t", " ", "i", "s", " ", "o", "n", " ", "s", "o", " ", "i",
    "t", " ", "i", "s", " ", "o", "n", " ", "s", "o", " ", "i", "t", " ", "i", "s", " ", "o",
    "n", " ", "s", "o", " ", "i", "t", " ", "i", "s", " ", "o", "n", " ", "s", "o", " ", "i",
    "t", " ", "i", "s", " ", "o", "n", " ", "s", "o", " ", "i", "t", " ", "i", "s", " ", "o",
    "n", " ", "s", "o", " ", "i", "t", " ", "i", "s", " ", "o", "n", " ", "s", "o", " ", "i",
    "t", " ", "i", "s", " ", "o", "n", " ", "s", "o", " ", "i", "t", " ", "i", "s", " ", "o",
    "n", " ", "s", "o", " ", "i", "t", " ", "i", "s", " ", "o", "n">>

TitleText ==
    <<"S", "i", "l", "k", " ", "S", "c", "a", "r", "f">>

HttpUrl ==
    <<"h", "t", "t", "p", ":", "/", "/", "x", ".", "c", "o", "/", "a", ".", "j", "p", "g">>

HttpsUrl ==
    <<"h", "t", "t", "p", "s", ":", "/", "/", "x", ".", "c", "o", "/", "b", ".", "j", "p",
    "g">>

FtpUrl ==
    <<"f", "t", "p", ":", "/", "/", "x", ".", "c", "o", "/", "c", ".", "j", "p", "g">>

SeqsUpTo(S, n) == UNION {[1..k -> S] : k \in 0..n}

\* the rows a schema (column -> the raw texts its fields take) allows
RowsOf(schema) == {r \in [DOMAIN schema -> UNION {schema[c] : c \in DOMAIN schema}] :
                      \A c \in DOMAIN schema : r[c] \in schema[c]}

File(schema, rows) ==
    [exists |-> TRUE, parses |-> TRUE, columns |-> DOMAIN schema, rows |-> rows]

TablesOf(schema, n) == {File(schema, rows) : rows \in SeqsUpTo(RowsOf(schema), n)}

NoFile == [exists |-> FALSE, parses |-> FALSE, columns |-> {}, rows |-> <<>>]
BadFile == [exists |-> TRUE, parses |-> FALSE, columns |-> {}, rows |-> <<>>]

BrandOnly == [c \in {"Brand"} |-> {Brand}]
CategoryOnly == [c \in {"Category"} |-> {CategoryA, Seven}]
NullableCategory == [c \in {"Category"} |-> {<<>>, CategoryB}]
SubtypeFirst == [c \in {"Subtype", "Category"} |->
                    IF c = "Subtype" THEN {<<>>, CategoryB} ELSE {Seven}]
WithDescription == [c \in {"Category", "description"} |->
                       IF c = "Category" THEN {CategoryA, Seven} ELSE {<<>>, Seven}]

\* one larger table, whose smaller group falls below the popularity floor
SkewedTable ==
    File(CategoryOnly, [i \in 1..(MaxRows + 2) |->
                           [c \in {"Category"} |-> IF i = 1 THEN Seven ELSE CategoryA]])

Datasets ==
    {NoFile, BadFile, SkewedTable}
        \cup TablesOf(BrandOnly, MaxRows) \cup TablesOf(CategoryOnly, MaxRows)
        \cup TablesOf(NullableCategory, MaxRows)
        \cup TablesOf(SubtypeFirst, MaxRows) \cup TablesOf(WithDescription, MaxRows)

\* Single-category files, whose one group is the input of a field computation
DescriptionOnly == [c \in {"Category", "description"} |->
                       IF c = "Category" THEN {CategoryA}
                       ELSE {<<>>, ShortText, PlainText, LongText, Seven}]
TitleOnly == [c \in {"Category", "title"} |->
                 IF c = "Category" THEN {CategoryA} ELSE {<<>>, TitleText}]
DescriptionAndTitle == [c \in {"Category", "description", "title"} |->
                           IF c = "Category" THEN {CategoryA}
                           ELSE IF c = "title" THEN {<<>>, TitleText}
                           ELSE {<<>>, ShortText, Seven}]
ImageOnly == [c \in {"Category", "image_url"} |->
                 IF c = "Category" THEN {CategoryA}
                 ELSE {<<>>, HttpUrl, HttpsUrl, FtpUrl, Seven}]
NoOptional == [c \in {"Category"} |-> {CategoryA}]

GroupFiles ==
    {f \in TablesOf(DescriptionOnly, MaxGroupRows) \cup TablesOf(TitleOnly, MaxGroupRows)
             \cup TablesOf(DescriptionAndTitle, MaxGroupRows)
             \cup TablesOf(ImageOnly, MaxGroupRows) \cup TablesOf(NoOptional, MaxGroupRows) :
        Len(f.rows) > 0}

\* category_counts[category] and category_counts.max() of a group
CountPairs == {[count |-> c, max_count |-> m] : c \in 1..MaxCount, m \in 1..MaxCount} 

Probes ==
    {[fn |-> "counts", counts |-> p, file |-> NoFile] : p \in {q \in CountPairs : q.count <= q.max_count}}
        \cup {[fn |-> "group", counts |-> [count |-> Len(f.rows), max_count |-> Len(f.rows)],
               file |-> f] : f \in GroupFiles}

-----------------------------------------------------------------------------
(* The program: the module-level call of line 155, then the two handlers *)

VARIABLES
    dataset,                  \* the file at DATASET_FILE
    processed_fashion_data,   \* the module-level list the handlers serve
    response,                 \* the last HTTP response sent
    pc,                       \* "startup" until line 155 has run, then "serving"
    loads,                    \* how many times load_and_process_data has run
    probe,                    \* the input of a single field computation
    result                    \* and its outcome

vars == <<dataset, processed_fashion_data, response, pc, loads, probe, result>>

NoResponse == [endpoint |-> "none", status |-> 0, json |-> <<>>]
NoProbe == [fn |-> "none", counts |-> [count |-> 0, max_count |-> 0], file |-> NoFile]
NoResult == [fn |-> "none", raised |-> FALSE, value |-> <<>>]

\* jsonify(x): a 200 response whose body is x as JSON
jsonify(endpoint, x) == [endpoint |-> endpoint, status |-> 200, json |-> x]

Init ==
    /\ dataset \in Datasets
    /\ processed_fashion_data = <<>>
    /\ response = NoResponse
    /\ pc = "startup"
    /\ loads = 0
    /\ probe = NoProbe
    /\ result = NoResult

\* processed_fashion_data = load_and_process_data()
Load ==
    /\ pc = "startup"
    /\ processed_fashion_data' \in load_and_process_data(dataset)
    /\ loads' = loads + 1
    /\ pc' = "serving"
    /\ UNCHANGED <<dataset, response, probe, result>>

\* mutant: the handler runs the extractor again
get_trends_reloading ==
    /\ pc = "serving"
    /\ processed_fashion_data' \in load_and_process_data(dataset)
    /\ response' = jsonify("/api/trends", processed_fashion_data')
    /\ loads' = loads + 1
    /\ UNCHANGED <<dataset, pc, probe, result>>

\* GET /api/trends
get_trends ==
    /\ pc = "serving"
    /\ response' = jsonify("/api/trends", processed_fashion_data)
    /\ UNCHANGED <<dataset, processed_fashion_data, pc, loads, probe, result>>

\* POST /api/predict
predict_trend ==
    /\ pc = "serving"
    /\ response' = jsonify("/api/predict", [message |-> PredictMessage])
    /\ UNCHANGED <<dataset, processed_fashion_data, pc, loads, probe, result>>

Next == Load \/ get_trends \/ predict_trend

Spec == Init /\ [][Next]_vars

-----------------------------------------------------------------------------
(* The field computations of one loop iteration, each run on its own on a  *)
(* probe: a pair of counts, or the one group of a single-category file     *)

\* category, category_df and df.columns of the probe's group
probe_group ==
    LET df  == read_csv(probe.file)
        col == category_col(df.columns)
        category == CHOOSE v \in category_values(df.rows, col) : TRUE
    IN  [category |-> category, columns |-> df.columns,
         cdf |-> category_df(df.rows, col, category)]

Outcome(fn, r) ==
    IF r.raised
    THEN result' = [fn |-> fn, raised |-> TRUE, value |-> <<>>]
    ELSE \E v \in r.values : result' = [fn |-> fn, raised |-> FALSE, value |-> v]

InitFields ==
    /\ dataset = NoFile
    /\ processed_fashion_data = <<>>
    /\ response = NoResponse
    /\ pc = "input"
    /\ loads = 0
    /\ probe \in Probes
    /\ result = NoResult

\* lines 76-78
run_current_popularity ==
    /\ pc = "input"
    /\ probe.fn = "counts"
    /\ Outcome("current_popularity",
               Return({current_popularity(probe.counts.count, probe.counts.max_count)}))
    /\ pc' = "done"
    /\ UNCHANGED <<dataset, processed_fashion_data, response, loads, probe>>

\* lines 86-95
run_keywords ==
    /\ pc = "input"
    /\ probe.fn = "group"
    /\ Outcome("keywords",
               keywords(probe_group.cdf, probe_group.columns, probe_group.category))
    /\ pc' = "done"
    /\ UNCHANGED <<dataset, processed_fashion_data, response, loads, probe>>

\* lines 98-102
run_description ==
    /\ pc = "input"
    /\ probe.fn = "group"
    /\ Outcome("description",
               description(probe_group.cdf, probe_group.columns, probe_group.category))
    /\ pc' = "done"
    /\ UNCHANGED <<dataset, processed_fashion_data, response, loads, probe>>

\* lines 105-111
run_image_url ==
    /\ pc = "input"
    /\ probe.fn = "group"
    /\ Outcome("image_url",
               image_url(probe_group.cdf, probe_group.columns, probe_group.category))
    /\ pc' = "done"
    /\ UNCHANGED <<dataset, processed_fashion_data, response, loads, probe>>

NextFields == run_current_popularity \/ run_keywords \/ run_description \/ run_image_url

SpecFields == InitFields /\ [][NextFields]_vars

-----------------------------------------------------------------------------
(* Properties. They are stated on the raw fields of the file, not on the   *)
(* data frame operators above.                                             *)

Recognised ==
    {"Type ", "Subtype", "Category", "category", "ProductCategory", "product_category"}

GroupingColumn(cols) ==
    IF "Type " \in cols THEN "Type "
    ELSE IF "Subtype" \in cols THEN "Subtype"
    ELSE IF "Category" \in cols THEN "Category"
    ELSE IF "category" \in cols THEN "category"
    ELSE IF "ProductCategory" \in cols THEN "ProductCategory"
    ELSE "product_category"

AllDigits(t) == \A k \in 1..Len(t) : t[k] \in {"0", "1", "2", "3", "4", "5", "6", "7", "8", "9"}

\* the rows whose field c is filled in
Filled(file, c) == {i \in 1..Len(file.rows) : file.rows[i][c] # <<>>}

\* read_csv makes numbers of column c
NumbersOnly(file, c) ==
    Filled(file, c) # {} /\ \A i \in Filled(file, c) : AllDigits(file.rows[i][c])

\* the file parses to a table with a recognised column and at least one row
Grouped(file) ==
    file.exists /\ file.parses /\ file.columns \cap Recognised # {} /\ Len(file.rows) > 0

\* the distinct category values of the file
CategoryTexts(file) ==
    {file.rows[i][GroupingColumn(file.columns)] : i \in 1..Len(file.rows)} \ {<<>>}

RowsOfCategory(file, v) ==
    {i \in 1..Len(file.rows) : file.rows[i][GroupingColumn(file.columns)] = v}

GroupHas(file, v, c) ==
    c \in file.columns /\ \E i \in RowsOfCategory(file, v) : file.rows[i][c] # <<>>

\* the loop body raises on the group of category v: a str method is called
\* on a number
GroupRaises(file, v) ==
    \/ NumbersOnly(file, GroupingColumn(file.columns))
    \/ GroupHas(file, v, "description") /\ NumbersOnly(file, "description")
    \/ /\ ~GroupHas(file, v, "description")
       /\ GroupHas(file, v, "title") /\ NumbersOnly(file, "title")
    \/ GroupHas(file, v, "image_url") /\ NumbersOnly(file, "image_url")

ProcessingRaises(file) == Grouped(file) /\ \E v \in CategoryTexts(file) : GroupRaises(file, v)

Fallbacks == {MissingFileFallback, DataIssueFallback, ProcessingErrorFallback}

\* C1 (as claimed): load_and_process_data never returns an empty list, and in
\* every failure mode (file missing, parse or processing exception, no
\* recognised category column, category column without a usable value in any
\* row) the returned list is one of the hard-coded fallback lists.
C1_FallbackInEveryFailureMode ==
    pc = "serving" =>
        /\ processed_fashion_data # <<>>
        /\ (\/ ~dataset.exists
            \/ ~dataset.parses
            \/ dataset.columns \cap Recognised = {}
            \/ CategoryTexts(dataset) = {}
            \/ ProcessingRaises(dataset)) => processed_fashion_data \in Fallbacks

PopularityInRange(list) ==
    \A i \in 1..Len(list) :
        list[i].currentPopularity \in Int /\ 30 <= list[i].currentPopularity
                                          /\ list[i].currentPopularity <= 95

\* C2: every record of the list load_and_process_data returned, and of every
\* GET /api/trends response, has an integer currentPopularity in [30, 95].
C2_PopularityInRange ==
    /\ pc = "serving" => PopularityInRange(processed_fashion_data)
    /\ response.endpoint = "/api/trends" => PopularityInRange(response.json)

\* a derived list whose first group is capped at 95 and whose second group,
\* at a quarter of the first, is raised to 30
C2_Witness ==
    /\ pc = "serving"
    /\ dataset = SkewedTable
    /\ Len(processed_fashion_data) = 2
    /\ processed_fashion_data[1].currentPopularity = 95
    /\ processed_fashion_data[2].currentPopularity = 30

C3_Clamp(n) == IF n < 30 THEN 30 ELSE IF n > 95 THEN 95 ELSE n

\* round(count / max_count * 100), to nearest, ties to even
C3_Rounded(count, max) ==
    LET q == (100 * count) \div max
        r == (100 * count) % max
    IN  IF 2 * r > max \/ (2 * r = max /\ q % 2 = 1) THEN q + 1 ELSE q

\* C3 (as claimed): currentPopularity = round(group_count / max_group_count *
\* 100) clamped to [30, 95].
C3_PopularityIsRounded ==
    result.fn = "current_popularity" =>
        result.value = C3_Clamp(C3_Rounded(probe.counts.count, probe.counts.max_count))

\* C3 (amended): currentPopularity is the percentage truncated, not rounded,
\* then clamped to [30, 95]: floor(100 * count / max_count) when that quotient
\* is no integer, and the quotient or one less (the double product falling
\* just short of it) when it is.
C3_PopularityIsTruncated ==
    result.fn = "current_popularity" =>
        LET q == (100 * probe.counts.count) \div probe.counts.max_count
            r == (100 * probe.counts.count) % probe.counts.max_count
        IN  /\ r # 0 => result.value = C3_Clamp(q)
            /\ r = 0 => result.value \in {C3_Clamp(q), C3_Clamp(q - 1)}

\* 2 of 3 rows: 66.67 is truncated to 66, where rounding gives 67
C3_Witness ==
    /\ result.fn = "current_popularity"
    /\ probe.counts.count = 2 /\ probe.counts.max_count = 3
    /\ result.value = 66

\* C4: the extractor runs exactly once, before any request is served, and
\* from then on no request changes the held list or runs the extractor again,
\* and every GET /api/trends response carries exactly the held list.
C4_LoadedOnceServedUnchanged ==
    /\ [](pc = "startup" => loads = 0 /\ response.endpoint = "none")
    /\ [](pc = "serving" => loads = 1)
    /\ [][pc = "serving" =>
            /\ processed_fashion_data' = processed_fashion_data
            /\ loads' = loads
            /\ response'.endpoint = "/api/trends" =>
                   response'.json = processed_fashion_data]_vars

\* a derived two-record list served by GET /api/trends
C4_Witness ==
    /\ pc = "serving"
    /\ response.endpoint = "/api/trends"
    /\ Len(processed_fashion_data) = 2
    /\ processed_fashion_data \notin Fallbacks
    /\ response.json = processed_fashion_data

\* C5: a missing file gives exactly the two-record fallback; a parsed file
\* with no recognised category column gives exactly the "Data Issue" record;
\* a parse or processing exception gives exactly the "Processing Error"
\* record, with none of the records derived before the exception.
C5_FallbackIdentifiesFailure ==
    pc = "serving" =>
        /\ ~dataset.exists => processed_fashion_data = MissingFileFallback
        /\ (dataset.exists /\ dataset.parses /\ dataset.columns \cap Recognised = {})
               => processed_fashion_data = DataIssueFallback
        /\ (dataset.exists /\ (~dataset.parses \/ ProcessingRaises(dataset)))
               => processed_fashion_data = ProcessingErrorFallback

\* the first group (two rows, no description) is derived, then the second
\* group's numeric description raises
C5_Witness ==
    /\ pc = "serving"
    /\ dataset.columns = {"Category", "description"}
    /\ Len(dataset.rows) = 3
    /\ \A i \in 1..2 : dataset.rows[i]["Category"] = CategoryA
                       /\ dataset.rows[i]["description"] = <<>>
    /\ dataset.rows[3]["Category"] = Seven /\ dataset.rows[3]["description"] = Seven
    /\ processed_fashion_data = ProcessingErrorFallback

DigitValue(ch) ==
    CHOOSE d \in 0..9 : <<"0", "1", "2", "3", "4", "5", "6", "7", "8", "9">>[d + 1] = ch

\* the number written by the digits s[2..Len(s)] (one or two of them)
Unsigned(s) ==
    IF Len(s) = 2 THEN DigitValue(s[2]) ELSE 10 * DigitValue(s[2]) + DigitValue(s[3])

WellFormedChange(s) ==
    /\ Len(s) \in {2, 3}
    /\ s[1] \in {"+", "-"}
    /\ AllDigits(SubSeq(s, 2, Len(s)))
    /\ Unsigned(s) <= 25
    /\ LET value == IF s[1] = "-" THEN 0 - Unsigned(s) ELSE Unsigned(s)
       IN  (s[1] = "+" <=> value >= 0) /\ -10 <= value /\ value <= 25

\* C6: every predictedPopularityChange is a sign, '+' exactly when the value
\* is non-negative, followed by decimal digits, with an unsigned value in
\* [0, 25] and a signed value in [-10, 25].
C6_ChangeWellFormed ==
    pc = "serving" =>
        \A i \in 1..Len(processed_fashion_data) :
            WellFormedChange(processed_fashion_data[i].predictedPopularityChange)

\* a derived list holding both ends of the range
C6_Witness ==
    /\ pc = "serving"
    /\ Len(processed_fashion_data) = 2
    /\ processed_fashion_data \notin Fallbacks
    /\ processed_fashion_data[1].predictedPopularityChange = <<"-", "1", "0">>
    /\ processed_fashion_data[2].predictedPopularityChange = <<"+", "2", "5">>

\* the raw fields of column c in the probe's group, in row order
ProbeTexts(c) ==
    IF c \in probe.file.columns
    THEN [i \in 1..Len(probe.file.rows) |-> probe.file.rows[i][c]]
    ELSE <<>>

AnyFilled(texts) == \E i \in 1..Len(texts) : texts[i] # <<>>

FirstFilled(texts) ==
    texts[CHOOSE i \in 1..Len(texts) : texts[i] # <<>> /\ \A j \in 1..(i - 1) : texts[j] = <<>>]

\* where the group's sample text comes from
SampleSource ==
    IF AnyFilled(ProbeTexts("description")) THEN "description"
    ELSE IF AnyFilled(ProbeTexts("title")) THEN "title"
    ELSE "none"

Sample == FirstFilled(ProbeTexts(SampleSource))

First150(t) == [k \in 1..(IF Len(t) < 150 THEN Len(t) ELSE 150) |-> t[k]]

ExpectedSentence ==
    <<"T", "r", "e", "n", "d", "s", " ", "i", "n", " ", "t", "h", "e", " ", "'", "M", "a", "x",
    "i", " ", "D", "r", "e", "s", "s", "'", " ", "c", "a", "t", "e", "g", "o", "r", "y", ",",
    " ", "d", "e", "r", "i", "v", "e", "d", " ", "f", "r", "o", "m", " ", "K", "a", "g", "g",
    "l", "e", " ", "d", "a", "t", "a", ".">>

ExpectedPlaceholder ==
    <<"h", "t", "t", "p", "s", ":", "/", "/", "p", "l", "a", "c", "e", "h", "o", "l", "d", ".",
    "c", "o", "/", "3", "0", "0", "x", "2", "0", "0", "/", "F", "0", "F", "0", "F", "0", "/",
    "3", "3", "3", "3", "3", "3", "?", "t", "e", "x", "t", "=", "M", "a", "x", "i", "+", "D",
    "r", "e", "s", "s">>

ExpectedSlug ==
    <<"m", "a", "x", "i", "-", "d", "r", "e", "s", "s">>

\* C7 (as claimed): the description is the first 150 characters of the sample
\* description or title, so at most 150 long and equal to a sample of at most
\* 150 characters; without a sample it is the generated sentence.
C7_DescriptionIsPrefix ==
    (result.fn = "description" /\ ~result.raised) =>
        IF SampleSource # "none"
        THEN /\ result.value = First150(Sample)
             /\ Len(result.value) <= 150
             /\ Len(Sample) <= 150 => result.value = Sample
        ELSE result.value = ExpectedSentence

\* C7 (amended): the description is the first 150 characters of the sample
\* followed by "...", so at most 153 long; without a sample it is the
\* generated sentence.
C7_DescriptionIsPrefixWithEllipsis ==
    (result.fn = "description" /\ ~result.raised) =>
        IF SampleSource # "none"
        THEN /\ result.value = First150(Sample) \o <<".", ".", ".">>
             /\ Len(result.value) <= 153
        ELSE result.value = ExpectedSentence

\* a sample longer than 150 characters, cut and given its ellipsis
C7_Witness ==
    /\ result.fn = "description" /\ ~result.raised
    /\ SampleSource = "description"
    /\ Len(Sample) > 150
    /\ Len(result.value) = 153

IsHttp(t) == Len(t) >= 4 /\ t[1] = "h" /\ t[2] = "t" /\ t[3] = "t" /\ t[4] = "p"

\* C8 (as claimed): imageUrl is the group's first image_url value, in row
\* order, that starts with 'http', and the placeholder only when no value does.
C8_FirstHttpUrl ==
    (result.fn = "image_url" /\ ~result.raised) =>
        LET urls == ProbeTexts("image_url")
        IN  IF \E i \in 1..Len(urls) : IsHttp(urls[i])
            THEN result.value =
                   urls[CHOOSE i \in 1..Len(urls) :
                           IsHttp(urls[i]) /\ \A j \in 1..(i - 1) : ~IsHttp(urls[j])]
            ELSE result.value = ExpectedPlaceholder

\* C8 (amended): imageUrl is the group's first non-null image_url value when
\* that value starts with 'http', and the placeholder otherwise, also when a
\* later value starts with 'http'.
C8_FirstUrlIfHttp ==
    (result.fn = "image_url" /\ ~result.raised) =>
        LET urls == ProbeTexts("image_url")
        IN  IF AnyFilled(urls) /\ IsHttp(FirstFilled(urls))
            THEN result.value = FirstFilled(urls)
            ELSE result.value = ExpectedPlaceholder

\* the first value is no http URL, the second is: the placeholder is used
C8_Witness ==
    /\ result.fn = "image_url" /\ ~result.raised
    /\ ProbeTexts("image_url") = <<FtpUrl, HttpUrl>>
    /\ result.value = ExpectedPlaceholder

IsSpace(ch) == ch \in {" ", "\t"}

\* the words of t longer than 3 characters, lower-cased
LongWordsOf(t) ==
    LET starts == {p \in 1..Len(t) : ~IsSpace(t[p]) /\ (p = 1 \/ IsSpace(t[p - 1]))}
        ends   == {q \in 1..Len(t) : ~IsSpace(t[q]) /\ (q = Len(t) \/ IsSpace(t[q + 1]))}
        end(p) == CHOOSE q \in p..Len(t) : q \in ends /\ \A x \in p..(q - 1) : x \notin ends
    IN  {[k \in 1..(end(p) - p + 1) |-> lower_char(t[p + k - 1])] :
            p \in {x \in starts : end(x) - x + 1 > 3}}

IsLowercase(w) ==
    \A k \in 1..Len(w) : \A u \in 1..Len(UpperLetters) : w[k] # UpperLetters[u]

Distinct(list) == \A i, j \in 1..Len(list) : i # j => list[i] # list[j]

\* C9 (as claimed): keywords holds at most 5 distinct lowercase words longer
\* than 3 characters from the sample; when no text field yields such a word
\* (no column, all null, or no word longer than 3 characters) it is exactly
\* the category name lowercased and hyphenated; it is never empty.
C9_KeywordsNeverEmpty ==
    (result.fn = "keywords" /\ ~result.raised) =>
        LET words == IF SampleSource # "none" THEN LongWordsOf(Sample) ELSE {}
        IN  /\ Len(result.value) <= 5
            /\ Distinct(result.value)
            /\ result.value # <<>>
            /\ IF words # {}
               THEN \A i \in 1..Len(result.value) :
                        /\ result.value[i] \in words
                        /\ Len(result.value[i]) > 3
                        /\ IsLowercase(result.value[i])
               ELSE result.value = <<ExpectedSlug>>

\* C9 (amended): with a sample (the first non-null description of the group,
\* else its first non-null title) keywords holds min(5, n) distinct lowercase
\* words longer than 3 characters from it, n being the number of such words,
\* so it is empty when the sample has none; only without any sample is it the
\* one-element list of the category name lowercased and hyphenated.
C9_KeywordsFromSample ==
    (result.fn = "keywords" /\ ~result.raised) =>
        LET words == IF SampleSource # "none" THEN LongWordsOf(Sample) ELSE {}
        IN  /\ Len(result.value) <= 5
            /\ Distinct(result.value)
            /\ IF SampleSource # "none"
               THEN /\ \A i \in 1..Len(result.value) :
                           /\ result.value[i] \in words
                           /\ Len(result.value[i]) > 3
                           /\ IsLowercase(result.value[i])
                    /\ Len(result.value) =
                           (IF Cardinality(words) < 5 THEN Cardinality(words) ELSE 5)
               ELSE result.value = <<ExpectedSlug>>

\* a sample without a word longer than 3 characters: no keyword at all
C9_Witness ==
    /\ result.fn = "keywords" /\ ~result.raised
    /\ SampleSource = "description"
    /\ Sample = PlainText
    /\ result.value = <<>>

\* the derived lists: the file is grouped and no group raises
Derived(file) == Grouped(file) /\ ~ProcessingRaises(file)

RowCount(file, v) == Cardinality(RowsOfCategory(file, v))

\* C10: a derived list has exactly one record per distinct category value,
\* the k-th with id k, in order of non-increasing group row count, hence of
\* non-increasing currentPopularity, the first record's being 95.
C10_OneRecordPerCategoryInCountOrder ==
    (pc = "serving" /\ Derived(dataset)) =>
        LET list == processed_fashion_data
        IN  /\ Len(list) = Cardinality(CategoryTexts(dataset))
            /\ {list[k].category : k \in 1..Len(list)} = CategoryTexts(dataset)
            /\ \A k \in 1..Len(list) : list[k].id = k
            /\ \A k \in 1..(Len(list) - 1) :
                   /\ RowCount(dataset, list[k].category)
                          >= RowCount(dataset, list[k + 1].category)
                   /\ list[k].currentPopularity >= list[k + 1].currentPopularity
            /\ Len(list) > 0 => list[1].currentPopularity = 95

\* the category with two rows comes first although it is second in the file
C10_Witness ==
    /\ pc = "serving"
    /\ dataset.columns = {"Category"}
    /\ Len(dataset.rows) = 3
    /\ dataset.rows[1]["Category"] = Seven
    /\ dataset.rows[2]["Category"] = CategoryA
    /\ dataset.rows[3]["Category"] = CategoryA
    /\ Len(processed_fashion_data) = 2
    /\ processed_fashion_data[1].category = CategoryA
    /\ processed_fashion_data[1].id = 1
    /\ processed_fashion_data[2].category = Seven
    /\ processed_fashion_data[2].id = 2
    /\ processed_fashion_data[2].currentPopularity = 50

====
